---- MODULE Spec2Model ----
(***************************************************************************)
(* Tube-based MPC (pympc): the support-function oracle, the polyhedral and *)
(* ellipsoidal set algebra, the two-phase disturbance-invariant-set solver *)
(* and the controller built on them.                                       *)
(*                                                                         *)
(* Numbers are exact rationals <<n, d>> (d > 0, lowest terms); the solver  *)
(* oracle (cvxpy) is modelled by the exact optimum of the program it is    *)
(* given.  Sets live in the plane (n_dim = 2) or on the line (n_dim = 1);  *)
(* a 3-dimensional set occurs only where the code rejects it by dimension. *)
(***************************************************************************)
EXTENDS Integers, Sequences, FiniteSets, TLC

(***************************************************************************)
(* Exact rational arithmetic (the values numpy holds as floats).           *)
(***************************************************************************)
(* The operations are functions under their operator names: a function's   *)
(* arguments are values, computed once, however often its body uses them.  *)
Abs(n) == IF n < 0 THEN -n ELSE n

gcd[a \in Nat, b \in Nat] == IF b = 0 THEN a ELSE gcd[b, a % b]
GCD(a, b) == gcd[a, b]

norm[n \in Int, d \in Int] ==
  LET g == GCD(Abs(n), Abs(d))
      s == IF d < 0 THEN -1 ELSE 1
  IN  <<s * (n \div g), s * (d \div g)>>
Norm(n, d) == norm[n, d]

Q(n, d) == Norm(n, d)
Zero == <<0, 1>>
One == <<1, 1>>
Rat == Int \X Int

radd[x \in Rat, y \in Rat] ==
  LET g == GCD(x[2], y[2])
  IN  Norm(x[1] * (y[2] \div g) + y[1] * (x[2] \div g), (x[2] \div g) * y[2])
RAdd(x, y) == radd[x, y]

RNeg(x) == <<-x[1], x[2]>>
RSub(x, y) == RAdd(x, RNeg(y))

rmul[x \in Rat, y \in Rat] ==
  LET g1 == GCD(Abs(x[1]), y[2])
      g2 == GCD(Abs(y[1]), x[2])
  IN  IF x[1] = 0 \/ y[1] = 0 THEN Zero
      ELSE <<(x[1] \div g1) * (y[1] \div g2), (x[2] \div g2) * (y[2] \div g1)>>
RMul(x, y) == rmul[x, y]

RInv(x) == Norm(x[2], x[1])
RDiv(x, y) == RMul(x, RInv(y))

rle[x \in Rat, y \in Rat] ==
  LET g == GCD(x[2], y[2])
  IN  x[1] * (y[2] \div g) <= y[1] * (x[2] \div g)
RLe(x, y) == rle[x, y]

RLt(x, y) == RLe(x, y) /\ x # y
RAbs(x) == <<Abs(x[1]), x[2]>>
RMaxOf(x, y) == IF RLe(x, y) THEN y ELSE x

rmaxseq[s \in Seq(Rat)] == IF Len(s) = 1 THEN s[1] ELSE RMaxOf(s[1], rmaxseq[Tail(s)])
RMaxSeq(s) == rmaxseq[s]

(***************************************************************************)
(* Vectors (sequences of rationals) and matrices (sequences of rows).      *)
(***************************************************************************)
(* a function's value as the sequence of its entries *)
Array(f) == f \o <<>>

dot[u \in Seq(Rat), v \in Seq(Rat)] ==
  IF Len(u) = 0 \/ Len(v) = 0 THEN Zero
  ELSE RAdd(RMul(u[1], v[1]), dot[Tail(u), Tail(v)])
Dot(u, v) == dot[u, v]

VAdd(u, v) == [i \in 1..Len(u) |-> RAdd(u[i], v[i])]
VSub(u, v) == [i \in 1..Len(u) |-> RSub(u[i], v[i])]
VNeg(u) == [i \in 1..Len(u) |-> RNeg(u[i])]

Col(m, j) == [i \in 1..Len(m) |-> m[i][j]]
matmul[m1 \in Seq(Seq(Rat)), m2 \in Seq(Seq(Rat))] ==
  Array([i \in 1..Len(m1) |-> Array([j \in 1..Len(m2[1]) |-> Dot(m1[i], Col(m2, j))])])
MatMul(m1, m2) == matmul[m1, m2]
MatVec(m, v) == [i \in 1..Len(m) |-> Dot(m[i], v)]
MatSub(m1, m2) ==
  [i \in 1..Len(m1) |-> [j \in 1..Len(m1[1]) |-> RSub(m1[i][j], m2[i][j])]]
Eye(n) == [i \in 1..n |-> [j \in 1..n |-> IF i = j THEN One ELSE Zero]]

Det2(m) == RSub(RMul(m[1][1], m[2][2]), RMul(m[1][2], m[2][1]))
Trace2(m) == RAdd(m[1][1], m[2][2])

Inv2(m) ==
  LET d == Det2(m)
  IN  << <<RDiv(m[2][2], d), RDiv(RNeg(m[1][2]), d)>>,
         <<RDiv(RNeg(m[2][1]), d), RDiv(m[1][1], d)>> >>

matpow[m \in Seq(Seq(Rat)), e \in Nat] ==
  IF e = 0 THEN Eye(Len(m)) ELSE MatMul(m, matpow[m, e - 1])
MatPow(m, e) == matpow[m, e]

(* numpy.linalg.inv raises LinAlgError for a non-square or singular matrix *)
Invertible(m) == Len(m) = 2 /\ Len(m[1]) = 2 /\ Det2(m) # Zero

(***************************************************************************)
(* Polyhedron {x : l_mat x <= r_vec}.                                      *)
(***************************************************************************)
None == <<>>
NoSet == [kind |-> "none", l_mat |-> <<>>, r_vec |-> <<>>]
Sets == [kind : STRING, l_mat : Seq(Seq(Rat)), r_vec : Seq(Rat)]
Polyhedron(l, r) == [kind |-> "polyhedron", l_mat |-> l, r_vec |-> Array(r)]

n_dim(s) == IF s.kind = "ellipsoid" THEN Len(s.p) ELSE Len(s.l_mat[1])
n_edges(s) == Len(s.l_mat)

contains(s, point) ==
  \A i \in 1..n_edges(s) : RLe(Dot(s.l_mat[i], point), s.r_vec[i])

(* The points where n_dim of the half-space boundaries meet.  Each row is  *)
(* first divided by its largest entry, which leaves the point unchanged    *)
(* and keeps the intermediate integers small.                              *)
RowScale(row) == RMaxOf(RAbs(row[1]), RAbs(row[2]))
Corner1(s, i) == <<RDiv(s.r_vec[i], s.l_mat[i][1])>>
Corner2(s, i, j) ==
  LET mi == RowScale(s.l_mat[i])
      mj == RowScale(s.l_mat[j])
      a == <<RDiv(s.l_mat[i][1], mi), RDiv(s.l_mat[i][2], mi)>>
      b == <<RDiv(s.l_mat[j][1], mj), RDiv(s.l_mat[j][2], mj)>>
      ri == RDiv(s.r_vec[i], mi)
      rj == RDiv(s.r_vec[j], mj)
      d == RSub(RMul(a[1], b[2]), RMul(a[2], b[1]))
  IN  << RDiv(RSub(RMul(ri, b[2]), RMul(a[2], rj)), d),
         RDiv(RSub(RMul(a[1], rj), RMul(ri, b[1])), d) >>

vertices[s \in Sets] ==
  IF n_dim(s) = 1
  THEN {v \in {Corner1(s, i) : i \in {k \in 1..n_edges(s) : s.l_mat[k][1] # Zero}} :
          contains(s, v)}
  ELSE {v \in {Corner2(s, p[1], p[2]) :
                 p \in {q \in (1..n_edges(s)) \X (1..n_edges(s)) :
                          /\ q[1] < q[2]
                          /\ RMul(s.l_mat[q[1]][1], s.l_mat[q[2]][2])
                               # RMul(s.l_mat[q[1]][2], s.l_mat[q[2]][1])}} :
          contains(s, v)}
Vertices(s) == vertices[s]

(* The oracle's answer to  maximize <eta, x>  subject to  x in s, for a    *)
(* bounded s: attained at a vertex; an empty s has no optimum (None).      *)
lpmax[vals \in SUBSET Rat] ==
  IF vals = {} THEN None ELSE CHOOSE x \in vals : \A y \in vals : RLe(y, x)
LPMax(eta, s) == lpmax[{Dot(eta, v) : v \in Vertices(s)}]

(***************************************************************************)
(* numpy arrays as far as support_fun looks at them: rank, size, entries.  *)
(***************************************************************************)
Arr0(x) == [ndim |-> 0, size |-> 1, data |-> <<x>>]
Arr1(v) == [ndim |-> 1, size |-> Len(v), data |-> v]
Arr2(m) == [ndim |-> 2, size |-> Len(m) * Len(m[1]), data |-> m[1]]

(***************************************************************************)
(* support_fun(eta, s): the two argument checks, then one variable, one    *)
(* problem and one solve.  exc is the exception raised ("none": returned). *)
(***************************************************************************)
SupportFunSizeFirst(eta, s) ==
  IF eta.size # n_dim(s)
  THEN [exc |-> "SetDimensionException", value |-> None, variables |-> 0, solves |-> 0]
  ELSE IF eta.ndim # 1
  THEN [exc |-> "SetTypeException", value |-> None, variables |-> 0, solves |-> 0]
  ELSE [exc |-> "none", value |-> LPMax(eta.data, s), variables |-> 1, solves |-> 1]

support_fun(eta, s) ==
  IF eta.ndim # 1
  THEN [exc |-> "SetTypeException", value |-> None, variables |-> 0, solves |-> 0]
  ELSE IF eta.size # n_dim(s)
  THEN [exc |-> "SetDimensionException", value |-> None, variables |-> 0, solves |-> 0]
  ELSE [exc |-> "none", value |-> LPMax(eta.data, s), variables |-> 1, solves |-> 1]

(* support_fun on a row of a matrix (l_mat[i, :] is 1-D) *)
support(row, s) == support_fun(Arr1(row), s).value

(***************************************************************************)
(* Polyhedron algebra.                                                     *)
(***************************************************************************)
subset_eq_[self \in Sets, other \in Sets] ==
  \A i \in 1..n_edges(other) : RLe(support(other.l_mat[i], self), other.r_vec[i])
subset_eq(self, other) == subset_eq_[self, other]

(* self + other, other a Polyhedron: self's normals, offsets moved by      *)
(* other's support value in each of them                                   *)
minkowski_sum[self \in Sets, other \in Sets] ==
  Polyhedron(self.l_mat,
             [i \in 1..n_edges(self) |->
                RAdd(self.r_vec[i], support(self.l_mat[i], other))])
MinkowskiSum(self, other) == minkowski_sum[self, other]

(* self - other, other a Polyhedron *)
pontryagin_diff[self \in Sets, other \in Sets] ==
  Polyhedron(self.l_mat,
             [i \in 1..n_edges(self) |->
                RSub(self.r_vec[i], support(self.l_mat[i], other))])
PontryaginDiff(self, other) == pontryagin_diff[self, other]

(* self + point *)
Translate(self, point) ==
  Polyhedron(self.l_mat,
             [i \in 1..n_edges(self) |->
                RAdd(self.r_vec[i], Dot(self.l_mat[i], point))])

(* self @ mat: the pre-image description *)
PolyMatMul(self, mat) == Polyhedron(MatMul(self.l_mat, mat), self.r_vec)

(* mat @ self: the forward image, self @ inv(mat); NotImplemented when     *)
(* mat has no inverse                                                      *)
NotImplemented == [kind |-> "NotImplemented", l_mat |-> <<>>, r_vec |-> <<>>]
PolyForwardImage(mat, self) ==
  IF Invertible(mat) THEN PolyMatMul(self, Inv2(mat)) ELSE NotImplemented

(* self * c, c >= 0 *)
poly_mul[self \in Sets, c \in Rat] ==
  Polyhedron(self.l_mat, [i \in 1..n_edges(self) |-> RMul(self.r_vec[i], c)])
PolyMul(self, c) == poly_mul[self, c]

(* SetBase.__rmul__ and SetBase.__truediv__ *)
PolyRMul(c, self) == PolyMul(self, c)
PolyTrueDiv(self, c) == PolyMul(self, RDiv(One, c))

(* unit_cube(n, side): |x_j| <= side / 2.  The solver passes               *)
(* side = 2 * epsilon / sqrt(n); term.subset_eq(unit_cube_) compares each  *)
(* support value h of term along +-e_j with epsilon / sqrt(n), decided     *)
(* exactly as  h <= 0  or  n * h^2 <= epsilon^2.                           *)
UnitRow(n, j, sgn) == [c \in 1..n |-> IF c = j THEN sgn ELSE Zero]
subset_eq_unit_cube[self \in Sets, n \in Nat, eps \in Rat] ==
  \A j \in 1..n : \A sgn \in {One, RNeg(One)} :
     LET h == support(UnitRow(n, j, sgn), self)
     IN  RLe(h, Zero) \/ RLe(RMul(Q(n, 1), RMul(h, h)), RMul(eps, eps))
SubsetEqUnitCube(self, n, eps) == subset_eq_unit_cube[self, n, eps]

(***************************************************************************)
(* Bounds of the model and the inputs the controller is built from.        *)
(***************************************************************************)
MaxIter == 24
MaxCalls == 2

alpha == Q(1, 5)
epsilon == Q(1, 1000)

Mat(a11, a12, a21, a22) == << <<a11, a12>>, <<a21, a22>> >>
Half == Q(1, 2)

Box(n, h) ==
  Polyhedron([i \in 1..(2 * n) |->
                IF i <= n THEN UnitRow(n, i, One) ELSE UnitRow(n, i - n, RNeg(One))],
             [i \in 1..(2 * n) |-> h])

(* x <= hi, -x <= lo, y <= hi, -y <= lo *)
SkewBox(hi, lo) ==
  Polyhedron(<< <<One, Zero>>, <<RNeg(One), Zero>>, <<Zero, One>>, <<Zero, RNeg(One)>> >>,
             <<hi, lo, hi, lo>>)

(* a, b, k with b = I: the closed loop a - b k is named for what it is *)
Systems ==
  { [name |-> "rotation", a |-> Eye(2), b |-> Eye(2),
     k |-> Mat(Half, Half, RNeg(Half), Half)],
    [name |-> "diagonal", a |-> Eye(2), b |-> Eye(2),
     k |-> Mat(Half, Zero, Zero, Half)],
    [name |-> "quarter turn", a |-> Mat(Zero, RNeg(One), One, Zero), b |-> Eye(2),
     k |-> Mat(Zero, RNeg(Half), Half, Zero)],
    [name |-> "singular", a |-> Eye(2), b |-> Eye(2),
     k |-> Mat(Half, Zero, Zero, One)],
    [name |-> "marginal", a |-> Mat(Zero, RNeg(One), One, Zero), b |-> Eye(2),
     k |-> Mat(Zero, Zero, Zero, Zero)] }

NoiseSets == { Box(2, Q(1, 10)), SkewBox(Q(1, 10), Q(1, 5)), Box(3, Q(1, 10)), Box(1, Q(1, 10)) }
StateSets == { Box(2, Q(10, 1)) }
InputSets == { Box(2, One) }
RealStates == { <<Zero, Zero>>, <<One, Zero>>, <<Q(10000, 1), Zero>> }

(* all eigenvalues of a 2 x 2 matrix strictly inside the unit circle *)
IsSchur(m) ==
  /\ RLt(RAbs(Det2(m)), One)
  /\ RLt(RAbs(Trace2(m)), RAdd(One, Det2(m)))

(* the origin is interior to w and w is bounded (w has vertices) *)
OriginInterior(w) == \A i \in 1..n_edges(w) : RLt(Zero, w.r_vec[i])

VARIABLES
  pc,                   \* where the controller instance is
  arg,                  \* the constructor's arguments
  state_dim,            \* MPCBase.state_dim
  noise_set,            \* self.__noise_set
  tightened_state_set,  \* self.__tightened_state_set
  tightened_input_set,  \* self.__tightened_input_set
  loc,                  \* the locals of disturbance_invariant_set
  cache,                \* functools.cache's entry for this instance
  dis_runs,             \* times the body of disturbance_invariant_set started
  dis_returned,         \* the values accesses to the property returned
  dis_accesses,         \* accesses to the property
  ret_to,               \* the access the running solver returns to
  oracle_solves,        \* solver-oracle calls made (support_fun and horizon)
  exc,                  \* the exception that ended construction
  real_time_state,      \* MPCBase.real_time_state
  call,                 \* the last control call and its outcome
  n_calls,              \* control calls made
  sf,                   \* the last support_fun call and its outcome
  ell                   \* the last Ellipsoid operation and its outcome

vars == <<pc, arg, state_dim, noise_set, tightened_state_set, tightened_input_set,
          loc, cache, dis_runs, dis_returned, dis_accesses, ret_to, oracle_solves,
          exc, real_time_state, call, n_calls, sf, ell>>

NoLoc ==
  [a_k |-> None, a_k_s |-> None, a_k_s_noise_set |-> NoSet,
   sum_a_k_s_noise_set |-> NoSet, alpha_noise_set |-> NoSet, alp |-> None,
   f_alpha_s_set |-> NoSet, a_k_n |-> None, a_k_n_noise_set |-> NoSet,
   sum_a_k_n_noise_set |-> NoSet, s |-> 0, t |-> 0, result |-> NoSet]
NoCall == [x |-> None, stored_before |-> None, status |-> "none", state_ini |-> None, input_ini |-> None,
           exc |-> "none", value |-> None]
NoSf == [eta |-> Arr0(Zero), s |-> NoSet, exc |-> "none", value |-> None,
         variables |-> 0, solves |-> 0]
NoEll == [op |-> "none", self |-> NoSet, other |-> NoSet, exc |-> "none",
          value |-> NoSet, self_after |-> NoSet, other_after |-> NoSet]

(***************************************************************************)
(* The controller: a fresh instance for every choice of arguments.         *)
(***************************************************************************)
Init ==
  /\ pc = "new"
  /\ arg \in {[sys |-> y, state_set |-> x, input_set |-> u, noise_set |-> w] :
                y \in Systems, x \in StateSets, u \in InputSets, w \in NoiseSets}
  /\ state_dim = 0
  /\ noise_set = NoSet
  /\ tightened_state_set = NoSet
  /\ tightened_input_set = NoSet
  /\ loc = NoLoc
  /\ cache = NoSet
  /\ dis_runs = 0
  /\ dis_returned = {}
  /\ dis_accesses = 0
  /\ ret_to = "none"
  /\ oracle_solves = 0
  /\ exc = "none"
  /\ real_time_state = None
  /\ call = NoCall
  /\ n_calls = 0
  /\ sf = NoSf
  /\ ell = NoEll

(* functools.cache on the property's getter: one entry per instance *)
CacheHit(c) == c # NoSet
CacheStoreNothing(c, value) == c
CacheStore(c, value) == value

(* __init__, lines 13-18: MPCBase.__init__, the dimension check, then the  *)
(* noise set is kept.  The check sits before the first access to           *)
(* disturbance_invariant_set.                                              *)
DimensionCheckMissing(n, w) == FALSE
DimensionMismatch(n, w) == n # n_dim(w)

Construct ==
  /\ pc = "new"
  /\ state_dim' = Len(arg.sys.a)
  /\ IF DimensionMismatch(state_dim', arg.noise_set)
     THEN /\ pc' = "failed"
          /\ exc' = "MPCDimensionException"
          /\ noise_set' = noise_set
     ELSE /\ pc' = "line20"
          /\ exc' = exc
          /\ noise_set' = arg.noise_set
  /\ UNCHANGED <<arg, tightened_state_set, tightened_input_set, loc, cache, dis_runs,
                 dis_returned, dis_accesses, ret_to, oracle_solves, real_time_state,
                 call, n_calls, sf, ell>>

(* disturbance_invariant_set, lines 48-57: the body starts on a cache miss *)
SolverStart(w, a, b, k) ==
  [a_k |-> MatSub(a, MatMul(b, k)),
   a_k_s |-> Eye(Len(a)),
   a_k_s_noise_set |-> w,
   sum_a_k_s_noise_set |-> w,
   alpha_noise_set |-> PolyRMul(alpha, w),
   alp |-> alpha,
   f_alpha_s_set |-> NoSet, a_k_n |-> None, a_k_n_noise_set |-> NoSet,
   sum_a_k_n_noise_set |-> NoSet, s |-> 0, t |-> 0, result |-> NoSet]

StartSolver(from) ==
  /\ loc' = SolverStart(noise_set, arg.sys.a, arg.sys.b, arg.sys.k)
  /\ dis_runs' = dis_runs + 1
  /\ ret_to' = from
  /\ pc' = "phase1"

(* line 60: the test that leaves the first loop *)
Phase1Done(l) == subset_eq(l.a_k_s_noise_set, l.alpha_noise_set)

(* lines 63-70: one pass of the first loop *)
Phase1BodyStaleTerm(l) ==
  [l EXCEPT !.a_k_s = MatMul(l.a_k, l.a_k_s),
            !.sum_a_k_s_noise_set =
               MinkowskiSum(l.sum_a_k_s_noise_set, l.a_k_s_noise_set),
            !.s = l.s + 1]

Phase1Body(l) ==
  LET term == PolyForwardImage(l.a_k, l.a_k_s_noise_set)
  IN  [l EXCEPT !.a_k_s = MatMul(l.a_k, l.a_k_s),
                !.a_k_s_noise_set = term,
                !.sum_a_k_s_noise_set = MinkowskiSum(l.sum_a_k_s_noise_set, term),
                !.s = l.s + 1]

Phase1Iterate ==
  /\ pc = "phase1"
  /\ loc.s < MaxIter
  /\ ~Phase1Done(loc)
  /\ IF Invertible(loc.a_k)
     THEN /\ loc' = Phase1Body(loc)
          /\ pc' = pc
          /\ exc' = exc
     ELSE /\ loc' = loc
          /\ pc' = "failed"
          /\ exc' = "TypeError"
  /\ oracle_solves' = oracle_solves + 1
  /\ UNCHANGED <<arg, state_dim, noise_set, tightened_state_set, tightened_input_set,
                 cache, dis_runs, dis_returned, dis_accesses, ret_to, real_time_state,
                 call, n_calls, sf, ell>>

(* lines 72-73 *)
alpha_star[w \in Sets, term \in Sets] ==
  RMaxSeq([i \in 1..n_edges(w) |-> RDiv(support(w.l_mat[i], term), term.r_vec[i])])
AlphaStar(w, term) == alpha_star[w, term]

(* lines 72-81: leaving the first loop and setting up the second *)
Phase1FinishFreshSum(l, w) ==
  LET a_star == AlphaStar(w, l.a_k_s_noise_set)
  IN  [l EXCEPT !.alp = a_star,
                !.f_alpha_s_set = PolyTrueDiv(l.sum_a_k_s_noise_set, RSub(One, a_star)),
                !.a_k_n = l.a_k_s,
                !.a_k_n_noise_set = l.a_k_s_noise_set,
                !.sum_a_k_n_noise_set = l.a_k_s_noise_set,
                !.t = l.s]

Phase1Finish(l, w) ==
  LET a_star == AlphaStar(w, l.a_k_s_noise_set)
  IN  [l EXCEPT !.alp = a_star,
                !.f_alpha_s_set = PolyTrueDiv(l.sum_a_k_s_noise_set, RSub(One, a_star)),
                !.a_k_n = l.a_k_s,
                !.a_k_n_noise_set = l.a_k_s_noise_set,
                !.sum_a_k_n_noise_set = l.sum_a_k_s_noise_set,
                !.t = l.s]

Phase1Exit ==
  /\ pc = "phase1"
  /\ Phase1Done(loc)
  /\ loc' = Phase1Finish(loc, noise_set)
  /\ pc' = "phase2"
  /\ oracle_solves' = oracle_solves + 1
  /\ UNCHANGED <<arg, state_dim, noise_set, tightened_state_set, tightened_input_set,
                 cache, dis_runs, dis_returned, dis_accesses, ret_to, exc,
                 real_time_state, call, n_calls, sf, ell>>

(* line 86: the test that leaves the second loop *)
Phase2Done(l) == SubsetEqUnitCube(l.a_k_n_noise_set, Len(l.a_k), epsilon)

(* line 84, then lines 91-94: one pass of the second loop *)
Phase2Body(l) ==
  LET term == PolyForwardImage(l.a_k, l.a_k_n_noise_set)
  IN  [l EXCEPT !.a_k_n = MatMul(l.a_k, l.a_k_n),
                !.a_k_n_noise_set = term,
                !.sum_a_k_n_noise_set = MinkowskiSum(l.sum_a_k_n_noise_set, term),
                !.t = l.t + 1]

Phase2Iterate ==
  /\ pc = "phase2"
  /\ loc.t < loc.s + MaxIter
  /\ ~Phase2Done(loc)
  /\ loc' = Phase2Body(loc)
  /\ oracle_solves' = oracle_solves + 1
  /\ UNCHANGED <<pc, arg, state_dim, noise_set, tightened_state_set, tightened_input_set,
                 cache, dis_runs, dis_returned, dis_accesses, ret_to, exc,
                 real_time_state, call, n_calls, sf, ell>>

(* line 84 on the last pass, then line 96 *)
SolverResult(a_k_n, f_alpha_s_set, sum_a_k_n_noise_set) ==
  MinkowskiSum(PolyForwardImage(a_k_n, f_alpha_s_set), sum_a_k_n_noise_set)

Phase2Finish(l) ==
  LET a_k_n == MatMul(l.a_k, l.a_k_n)
  IN  [l EXCEPT !.a_k_n = a_k_n,
                !.t = l.t + 1,
                !.result = SolverResult(a_k_n, l.f_alpha_s_set, l.sum_a_k_n_noise_set)]

(* lines 86-98: the result is stored by functools.cache and handed to the  *)
(* access that started the solver, which resumes in TightenState,          *)
(* TightenInput or Control                                                 *)
Phase2Exit ==
  /\ pc = "phase2"
  /\ Phase2Done(loc)
  /\ loc' = Phase2Finish(loc)
  /\ cache' = CacheStore(cache, loc'.result)
  /\ pc' = ret_to
  /\ ret_to' = "returned"
  /\ oracle_solves' = oracle_solves + 1
  /\ UNCHANGED <<arg, state_dim, noise_set, tightened_state_set, tightened_input_set,
                 dis_runs, dis_returned, dis_accesses, exc, real_time_state, call,
                 n_calls, sf, ell>>

(* The value an access gets: the solver's fresh result, or the cache's.    *)
AccessValue == IF ret_to = "returned" THEN loc.result ELSE cache
AccessReady == ret_to = "returned" \/ CacheHit(cache)

(* line 20: state_set - self.disturbance_invariant_set *)
TightenState ==
  /\ pc = "line20"
  /\ IF AccessReady
     THEN /\ tightened_state_set' = PontryaginDiff(arg.state_set, AccessValue)
          /\ dis_returned' = dis_returned \cup {AccessValue}
          /\ dis_accesses' = dis_accesses + 1
          /\ oracle_solves' = oracle_solves + 1
          /\ pc' = "line21"
          /\ ret_to' = "none"
          /\ UNCHANGED <<loc, dis_runs>>
     ELSE /\ StartSolver("line20")
          /\ UNCHANGED <<tightened_state_set, dis_returned, dis_accesses, oracle_solves>>
  /\ UNCHANGED <<arg, state_dim, noise_set, tightened_input_set, cache, exc,
                 real_time_state, call, n_calls, sf, ell>>

(* line 21: input_set - self.k @ self.disturbance_invariant_set *)
TightenInput ==
  /\ pc = "line21"
  /\ IF AccessReady
     THEN /\ IF Invertible(arg.sys.k)
             THEN /\ tightened_input_set' =
                       PontryaginDiff(arg.input_set,
                                      PolyForwardImage(arg.sys.k, AccessValue))
                  /\ pc' = "ready"
                  /\ exc' = exc
             ELSE /\ tightened_input_set' = tightened_input_set
                  /\ pc' = "failed"
                  /\ exc' = "TypeError"
          /\ dis_returned' = dis_returned \cup {AccessValue}
          /\ dis_accesses' = dis_accesses + 1
          /\ oracle_solves' = oracle_solves + 1
          /\ ret_to' = "none"
          /\ UNCHANGED <<loc, dis_runs>>
     ELSE /\ StartSolver("line21")
          /\ UNCHANGED <<tightened_input_set, dis_returned, dis_accesses,
                         oracle_solves, exc>>
  /\ UNCHANGED <<arg, state_dim, noise_set, tightened_state_set, cache,
                 real_time_state, call, n_calls, sf, ell>>

(***************************************************************************)
(* control(x_real), TubeBasedMPC.__call__.                                 *)
(***************************************************************************)
(* line 24 *)
StoreState(old, x) == x

(* initial_constraint, line 43, with the tightened state set: the nominal  *)
(* initial states x0 with  x0 in tightened_state_set  and                  *)
(* real_time_state - x0 in disturbance_invariant_set                       *)
InitialStates(rts, f, xs) ==
  Polyhedron(xs.l_mat \o [i \in 1..n_edges(f) |-> VNeg(f.l_mat[i])],
             xs.r_vec \o [i \in 1..n_edges(f) |->
                            RSub(f.r_vec[i], Dot(f.l_mat[i], rts))])

(* line 25: what problem.solve leaves behind.  The oracle reports an       *)
(* infeasible problem without raising and leaves every variable's value    *)
(* None; an optimum has x0 and u0 in their sets.  The horizon's other      *)
(* constraints (dynamics, terminal set) are the base controller's and are  *)
(* taken to be satisfiable, and any feasible vertex may be the optimum.    *)
HorizonSolve(rts, f, xs, us) ==
  LET optima == {[status |-> "optimal", state_ini |-> x0, input_ini |-> u0] :
                   x0 \in Vertices(InitialStates(rts, f, xs)), u0 \in Vertices(us)}
  IN  IF optima = {}
      THEN {[status |-> "infeasible", state_ini |-> None, input_ini |-> None]}
      ELSE optima

(* line 27 *)
ControlLawPlus(input_ini, k, x, state_ini) ==
  IF input_ini = None \/ state_ini = None
  THEN [exc |-> "TypeError", value |-> None]
  ELSE [exc |-> "none", value |-> VAdd(input_ini, MatVec(k, VSub(x, state_ini)))]

ControlLaw(input_ini, k, x, state_ini) ==
  IF input_ini = None \/ state_ini = None
  THEN [exc |-> "TypeError", value |-> None]
  ELSE [exc |-> "none", value |-> VSub(input_ini, MatVec(k, VSub(x, state_ini)))]

Control ==
  /\ pc = "ready"
  /\ n_calls < MaxCalls
  /\ IF CacheHit(cache)
     THEN /\ \E x \in RealStates :
               /\ real_time_state' = StoreState(real_time_state, x)
               /\ \E sol \in HorizonSolve(real_time_state', cache,
                                          tightened_state_set, tightened_input_set) :
                    LET out == ControlLaw(sol.input_ini, arg.sys.k, x, sol.state_ini)
                    IN  call' = [x |-> x, stored_before |-> real_time_state,
                                 status |-> sol.status,
                                 state_ini |-> sol.state_ini,
                                 input_ini |-> sol.input_ini,
                                 exc |-> out.exc, value |-> out.value]
          /\ dis_returned' = dis_returned \cup {cache}
          /\ dis_accesses' = dis_accesses + 1
          /\ oracle_solves' = oracle_solves + 1
          /\ n_calls' = n_calls + 1
          /\ UNCHANGED <<pc, loc, dis_runs, ret_to>>
     ELSE /\ StartSolver("ready")
          /\ UNCHANGED <<real_time_state, call, dis_returned, dis_accesses,
                         oracle_solves, n_calls>>
  /\ UNCHANGED <<arg, state_dim, noise_set, tightened_state_set, tightened_input_set,
                 cache, exc, sf, ell>>

Next ==
  \/ Construct
  \/ TightenState
  \/ TightenInput
  \/ Phase1Iterate
  \/ Phase1Exit
  \/ Phase2Iterate
  \/ Phase2Exit
  \/ Control

Spec == Init /\ [][Next]_vars

(* The solver's loops run on: a pass or an exit that can be taken is taken. *)
SolverStep == Phase1Iterate \/ Phase1Exit \/ Phase2Iterate \/ Phase2Exit
FairSpec == Init /\ [][Next]_vars /\ WF_vars(SolverStep)

(***************************************************************************)
(* The set library on its own: support_fun and the Ellipsoid operations    *)
(* are functions of their arguments, so each behaviour makes one call,     *)
(* with arguments of every shape.                                          *)
(***************************************************************************)
EtaArrays ==
  { Arr0(One), Arr1(<<One>>), Arr1(<<RNeg(One)>>), Arr1(<<One, Zero>>),
    Arr1(<<Zero, RNeg(One)>>), Arr1(<<One, One>>), Arr1(<<RNeg(One), Q(2, 1)>>),
    Arr1(<<One, Zero, Zero>>), Arr2(<< <<One, Zero>> >>), Arr2(<< <<One>>, <<Zero>> >>),
    Arr2(<< <<One>> >>), Arr2(Eye(2)) }

Triangle ==
  Polyhedron(<< <<RNeg(Q(3, 1)), One>>, <<RNeg(One), RNeg(One)>>, <<One, Zero>> >>,
             <<Q(3, 1), One, Zero>>)

SupportSets == { Box(2, One), SkewBox(One, Q(2, 1)), Triangle, Box(1, Q(3, 1)) }

SupportFunCall ==
  /\ sf = NoSf /\ ell = NoEll
  /\ \E eta \in EtaArrays : \E s \in SupportSets :
       LET out == support_fun(eta, s)
       IN  sf' = [eta |-> eta, s |-> s, exc |-> out.exc, value |-> out.value,
                  variables |-> out.variables, solves |-> out.solves]
  /\ UNCHANGED <<pc, arg, state_dim, noise_set, tightened_state_set,
                 tightened_input_set, loc, cache, dis_runs, dis_returned,
                 dis_accesses, ret_to, oracle_solves, exc, real_time_state, call,
                 n_calls, ell>>

(* Ellipsoid {x : (x - center)' p (x - center) <= alpha} *)
PositiveDefinite(p) ==
  /\ RLt(Zero, p[1][1])
  /\ RLt(Zero, RSub(RMul(p[1][1], p[2][2]), RMul(p[2][1], p[2][1])))

Raise(e, self, other) ==
  [exc |-> e, value |-> NoSet, self_after |-> self, other_after |-> other]
Return(v, self, other) ==
  [exc |-> "none", value |-> v, self_after |-> self, other_after |-> other]

(* __init__: numpy.linalg.cholesky decides positive definiteness *)
Ellipsoid(p, al, center) ==
  [kind |-> "ellipsoid", p |-> p, alpha |-> al, center |-> center]
NewEllipsoid(p, al, center, self, other) ==
  IF PositiveDefinite(p) THEN Return(Ellipsoid(p, al, center), self, other)
  ELSE Raise("SetTypeException", self, other)

Point(v) == [kind |-> "array", ndim |-> 1, shape |-> <<Len(v)>>, data |-> v]
Matrix(m) == [kind |-> "array", ndim |-> 2, shape |-> <<Len(m), Len(m[1])>>, data |-> m]
Scalar(c) == [kind |-> "scalar", ndim |-> 0, shape |-> <<>>, data |-> c]

EllSubsetEq(self, other) == Raise("SetNotImplementedException", self, other)

EllAddApproximate(self, other) ==
  IF other.kind = "ellipsoid"
  THEN NewEllipsoid(self.p, RAdd(self.alpha, other.alpha),
                    VAdd(self.center, other.center), self, other)
  ELSE NewEllipsoid(self.p, self.alpha, VAdd(self.center, other.data), self, other)

EllAdd(self, other) ==
  IF other.kind = "ellipsoid"
  THEN Raise("SetNotImplementedException", self, other)
  ELSE NewEllipsoid(self.p, self.alpha, VAdd(self.center, other.data), self, other)

EllSub(self, other) ==
  IF other.kind = "ellipsoid"
  THEN Raise("SetNotImplementedException", self, other)
  ELSE LET out == EllAdd(self, Point(VNeg(other.data)))
       IN  [out EXCEPT !.other_after = other]

Transpose(m) == [j \in 1..Len(m[1]) |-> Col(m, j)]

EllMatMul(self, other) ==
  IF other.ndim # 2
  THEN Raise("SetCalculationException", self, other)
  ELSE IF other.shape[1] # n_dim(self)
  THEN Raise("SetCalculationException", self, other)
  ELSE NewEllipsoid(MatMul(Transpose(other.data), MatMul(self.p, other.data)),
                    self.alpha, self.center, self, other)

EllMul(self, other) ==
  IF RLt(other.data, Zero)
  THEN Raise("SetCalculationException", self, other)
  ELSE NewEllipsoid(self.p, RMul(self.alpha, other.data), self.center, self, other)

EllAnd(self, other) == Raise("SetNotImplementedException", self, other)

Ellipsoids ==
  { Ellipsoid(Eye(2), One, <<Zero, Zero>>),
    Ellipsoid(Mat(One, RNeg(One), RNeg(One), Q(3, 1)), Q(2, 1), <<One, Zero>>),
    Ellipsoid(Mat(Q(2, 1), Zero, Zero, Half), Half, <<Zero, RNeg(One)>>) }
Points == { Point(<<Zero, Zero>>), Point(<<One, RNeg(Q(2, 1))>>) }
Matrices == { Matrix(Eye(2)), Matrix(Mat(One, One, Zero, One)),
              Matrix(Mat(One, Zero, Zero, Zero)),
              Matrix(<< <<One, Zero>> >>) }
Scalars == { Scalar(Zero), Scalar(Q(3, 1)), Scalar(RNeg(One)) }

Operands(op) ==
  CASE op \in {"subset_eq", "and"} -> Ellipsoids
    [] op \in {"add", "sub"} -> Ellipsoids \cup Points
    [] op = "matmul" -> Matrices \cup Points
    [] op = "mul" -> Scalars

EllApply(op, self, other) ==
  CASE op = "subset_eq" -> EllSubsetEq(self, other)
    [] op = "add" -> EllAdd(self, other)
    [] op = "sub" -> EllSub(self, other)
    [] op = "matmul" -> EllMatMul(self, other)
    [] op = "mul" -> EllMul(self, other)
    [] op = "and" -> EllAnd(self, other)

EllipsoidOp ==
  /\ sf = NoSf /\ ell = NoEll
  /\ \E op \in {"subset_eq", "add", "sub", "matmul", "mul", "and"} :
       \E self \in Ellipsoids : \E other \in Operands(op) :
         LET out == EllApply(op, self, other)
         IN  ell' = [op |-> op, self |-> self, other |-> other, exc |-> out.exc,
                     value |-> out.value, self_after |-> out.self_after,
                     other_after |-> out.other_after]
  /\ UNCHANGED <<pc, arg, state_dim, noise_set, tightened_state_set,
                 tightened_input_set, loc, cache, dis_runs, dis_returned,
                 dis_accesses, ret_to, oracle_solves, exc, real_time_state, call,
                 n_calls, sf>>

InitSets ==
  /\ Init
  /\ arg.sys.name = "diagonal"
  /\ arg.noise_set = Box(2, Q(1, 10))

NextSets ==
  \/ SupportFunCall
  \/ EllipsoidOp

SpecSets == InitSets /\ [][NextSets]_vars

(***************************************************************************)
(* What the properties below speak of.                                     *)
(***************************************************************************)
(* A_k^i W as a polyhedron: W's half-spaces pulled back through A_k^-i *)
Term(w, a_k, i) == PolyMatMul(w, MatPow(Inv2(a_k), i))

(* (A_k^lo W + A_k^(lo+1) W) + ... + A_k^hi W, summed as the code sums *)
RECURSIVE SeriesSum(_, _, _, _)
SeriesSum(w, a_k, lo, hi) ==
  IF hi = lo THEN Term(w, a_k, lo)
  ELSE MinkowskiSum(SeriesSum(w, a_k, lo, hi - 1), Term(w, a_k, hi))

(* the solver has just returned its result to the access that started it *)
SolverReturned == ret_to = "returned"

TubeAssumption ==
  /\ IsSchur(loc.a_k)
  /\ OriginInterior(noise_set)

(* C1: a control call solved to optimality, with optimal nominal initial   *)
(* state x0 and first input u0, returns u0 - K (x_real - x0), x_real being *)
(* this call's argument: it is the stored real-time state, and the         *)
(* optimum's coupling constraint was posed for it.                         *)
ControlReturnsAncillaryLaw ==
  call.status = "optimal" =>
    /\ call.exc = "none"
    /\ call.value
         = VSub(call.input_ini, MatVec(arg.sys.k, VSub(call.x, call.state_ini)))
    /\ real_time_state = call.x
    /\ contains(cache, VSub(call.x, call.state_ini))

ControlWitness ==
  /\ call.status = "optimal"
  /\ n_calls = 2
  /\ call.stored_before # call.x
  /\ MatVec(arg.sys.k, VSub(call.x, call.state_ini)) # <<Zero, Zero>>

(* C2: when the oracle reports the horizon problem infeasible, the call    *)
(* fails with a solver-infeasibility error and returns no input.           *)
InfeasibleRaisesSolverError ==
  call.status = "infeasible" =>
    /\ call.exc = "SolverInfeasible"
    /\ call.value = None

(* C3: a noise set of the wrong dimension ends construction with           *)
(* MPCDimensionException before the invariant-set solver is started, the   *)
(* oracle is called or a tightened set is computed.                        *)
DimensionErrorBeforeSolver ==
  (pc # "new" /\ n_dim(arg.noise_set) # Len(arg.sys.a)) =>
    /\ pc = "failed"
    /\ exc = "MPCDimensionException"
    /\ dis_runs = 0
    /\ dis_accesses = 0
    /\ oracle_solves = 0
    /\ loc = NoLoc
    /\ cache = NoSet
    /\ tightened_state_set = NoSet
    /\ tightened_input_set = NoSet

DimensionErrorWitness ==
  /\ exc = "MPCDimensionException"
  /\ n_dim(arg.noise_set) = 3
  /\ state_dim = 2

(* C4: the fixed point runs at most once per instance; every access to     *)
(* disturbance_invariant_set returns the one polyhedron it produced.       *)
MemoizedOnce ==
  /\ dis_runs <= 1
  /\ Cardinality(dis_returned) <= 1
  /\ (cache # NoSet => dis_returned \subseteq {cache} /\ cache = loc.result)
  /\ (dis_accesses > 0 => dis_runs = 1 /\ dis_returned = {loc.result})

MemoizedWitness ==
  /\ dis_runs = 1
  /\ dis_accesses = 4
  /\ n_calls = 2

(* C5: for a Schur-stable A_k and W with the origin inside, the returned   *)
(* F satisfies ((A_k @ F) + W).subset_eq(F).                               *)
ReturnedSetIsInvariant ==
  (SolverReturned /\ TubeAssumption) =>
    subset_eq(MinkowskiSum(PolyForwardImage(loc.a_k, loc.result), noise_set),
              loc.result)

(* C6 as stated: for a Schur-stable A_k and W with the origin inside, the  *)
(* first loop reaches its exit and then the second does.                   *)
BothLoopsExitWhenSchur ==
  (pc = "phase1" /\ TubeAssumption) ~> (loc.result # NoSet)

(* C6 as amended: the same for an invertible Schur-stable A_k; and with    *)
(* A_k on the unit circle the first loop's exit test never succeeds.       *)
BothLoopsExitWhenSchurInvertible ==
  /\ (pc = "phase1" /\ TubeAssumption /\ Invertible(loc.a_k))
       ~> (loc.result # NoSet)
  /\ [](pc = "phase1" /\ ~IsSchur(loc.a_k) => ~Phase1Done(loc))

BothLoopsWitness ==
  /\ SolverReturned
  /\ TubeAssumption
  /\ loc.s >= 3
  /\ loc.t >= loc.s + 3

(* C9: at the exit of the first loop, with s left-multiplications made,    *)
(* F_alpha = (sum of A_k^i W for i = 0..s-1) / (1 - alpha_star) and        *)
(* alpha_star = max_i support(L_i, A_k^s W) / r_i over W's L_i and r_i.    *)
PhaseOneBoundOmitsLastTerm ==
  pc = "phase2" =>
    /\ loc.s >= 1
    /\ loc.alp = RMaxSeq([i \in 1..n_edges(noise_set) |->
                            RDiv(support(noise_set.l_mat[i],
                                         Term(noise_set, loc.a_k, loc.s)),
                                 noise_set.r_vec[i])])
    /\ loc.f_alpha_s_set
         = PolyTrueDiv(SeriesSum(noise_set, loc.a_k, 0, loc.s - 1),
                       RSub(One, loc.alp))

(* C10 as stated: F = A_k^t (F_alpha) + Sigma' with Sigma' the sum of      *)
(* A_k^i W for i = s..t-1 only, the last accumulated term being            *)
(* A_k^(t-1) W.                                                            *)
ResultSumsPhaseTwoOnly ==
  SolverReturned =>
    /\ loc.a_k_n = MatPow(loc.a_k, loc.t)
    /\ loc.a_k_n_noise_set = Term(noise_set, loc.a_k, loc.t - 1)
    /\ loc.result
         = MinkowskiSum(PolyForwardImage(MatPow(loc.a_k, loc.t), loc.f_alpha_s_set),
                        SeriesSum(noise_set, loc.a_k, loc.s, loc.t - 1))

(* C10 as amended: Sigma' is the sum of A_k^i W for i = 0..t-1, the        *)
(* first loop's sum carried on through the second.                         *)
ResultSumsFromZero ==
  SolverReturned =>
    /\ loc.t > loc.s
    /\ loc.a_k_n = MatPow(loc.a_k, loc.t)
    /\ loc.a_k_n_noise_set = Term(noise_set, loc.a_k, loc.t - 1)
    /\ loc.sum_a_k_n_noise_set = SeriesSum(noise_set, loc.a_k, 0, loc.t - 1)
    /\ loc.result
         = MinkowskiSum(PolyForwardImage(MatPow(loc.a_k, loc.t), loc.f_alpha_s_set),
                        SeriesSum(noise_set, loc.a_k, 0, loc.t - 1))

ResultWitness ==
  /\ SolverReturned
  /\ loc.s >= 2
  /\ loc.t >= loc.s + 2

(* C7: support_fun raises SetTypeException for an eta that is not 1-D and  *)
(* SetDimensionException for a 1-D eta of the wrong length, in both cases  *)
(* before a variable or problem exists or the solver runs; otherwise it    *)
(* returns the maximum of <eta, x> over s.                                 *)
SupportFunChecksFirst ==
  sf # NoSf =>
    /\ (sf.eta.ndim # 1 =>
          /\ sf.exc = "SetTypeException"
          /\ sf.variables = 0 /\ sf.solves = 0 /\ sf.value = None)
    /\ (sf.eta.ndim = 1 /\ sf.eta.size # n_dim(sf.s) =>
          /\ sf.exc = "SetDimensionException"
          /\ sf.variables = 0 /\ sf.solves = 0 /\ sf.value = None)
    /\ (sf.eta.ndim = 1 /\ sf.eta.size = n_dim(sf.s) =>
          /\ sf.exc = "none"
          /\ sf.solves = 1
          /\ \A v \in Vertices(sf.s) : RLe(Dot(sf.eta.data, v), sf.value)
          /\ \E v \in Vertices(sf.s) : Dot(sf.eta.data, v) = sf.value)

SupportFunWitness ==
  /\ sf.eta.ndim = 2
  /\ sf.eta.size # n_dim(sf.s)
  /\ sf.exc = "SetTypeException"

(* C8: subset_eq, E1 + E2, E1 - E2 and E1 & E2 raise                       *)
(* SetNotImplementedException, return nothing and leave both operands as   *)
(* they were.                                                              *)
NoClosedForm(e) ==
  \/ e.op \in {"subset_eq", "and"}
  \/ e.op \in {"add", "sub"} /\ e.other.kind = "ellipsoid"

EllipsoidNotImplemented ==
  NoClosedForm(ell) =>
    /\ ell.exc = "SetNotImplementedException"
    /\ ell.value = NoSet
    /\ ell.self_after = ell.self
    /\ ell.other_after = ell.other

EllipsoidWitness ==
  /\ ell.op = "add"
  /\ ell.other.kind = "ellipsoid"
  /\ ell.exc = "SetNotImplementedException"
====
